---- MODULE Spec2Model ----
(***************************************************************************)
(* A model of mpkube: a CLI that drives the multipass VM manager to create, *)
(* list, fetch credentials of and delete single-node k3s clusters.          *)
(*                                                                          *)
(* Go strings are modelled as sequences of one-character strings, so that   *)
(* strings.Split, strings.TrimSpace and strings.HasPrefix are computed on   *)
(* the characters as the library computes them.                             *)
(***************************************************************************)
EXTENDS Integers, Sequences, FiniteSets, TLC

VARIABLES
    pc,          \* position of the running command ("idle" before, "done" after)
    op,          \* the CLI operation being run
    argName,     \* the name the user supplied ("" = none)
    name,        \* the local variable `name` / `clusterName` of the command
    force,       \* delete's --force flag
    answer,      \* the line the user types at delete's confirmation prompt
    issued,      \* the management-tool invocations made so far, in order
    result,      \* what the command returned to main
    vm,          \* the VM record a lookup returned
    vms,         \* the managed VMs a listing returned
    idx,         \* merge's loop index over vms
    kubeconfigs, \* merge's collected documents
    output,      \* raw text of a `list --format csv` reply (SpecParse)
    reqName,     \* name looked up by GetVMByName (SpecParse)
    parsed,      \* what parseMultipassList returned (SpecParse)
    found,       \* what GetVMByName returned (SpecParse)
    docs,        \* credentials documents given to the merge (SpecMerge)
    merged,      \* what the merge fold returned (SpecMerge)
    host,        \* what the machine answers to the resolver's probes (SpecEnv)
    env,         \* what NewMultipassEnv returned (SpecEnv)
    args,        \* the arguments the caller gave RunMultipassCmd (SpecEnv)
    cmd,         \* the process RunMultipassCmd started (SpecEnv)
    returned     \* what RunMultipassCmd returned (SpecEnv)

vars == <<pc, op, argName, name, force, answer, issued, result, vm, vms, idx,
          kubeconfigs, output, reqName, parsed, found, docs, merged,
          host, env, args, cmd, returned>>

cliVars == <<op, argName, name, force, answer, issued, result, vm, vms, idx, kubeconfigs>>
parseVars == <<output, reqName, parsed, found>>
mergeVars == <<docs, merged>>
envVars == <<host, env, args, cmd, returned>>

(***************************************************************************)
(* Bounds of the model.                                                     *)
(***************************************************************************)
MaxRows == 2
MaxDocs == 3
MaxVMs == 2

(***************************************************************************)
(* Strings.                                                                 *)
(***************************************************************************)
NL == "\n"
COMMA == ","

IsSpace(c) == c \in {" ", "\n", "\t", "\r"}

RECURSIVE TrimLeft(_)
TrimLeft(s) ==
    IF s # <<>> /\ IsSpace(Head(s)) THEN TrimLeft(Tail(s)) ELSE s

RECURSIVE TrimRight(_)
TrimRight(s) ==
    IF s # <<>> /\ IsSpace(s[Len(s)]) THEN TrimRight(SubSeq(s, 1, Len(s) - 1)) ELSE s

TrimSpace(s) == TrimRight(TrimLeft(s))

RECURSIVE Split(_, _)
Split(s, sep) ==
    IF \A i \in 1..Len(s) : s[i] # sep
    THEN <<s>>
    ELSE LET i == CHOOSE k \in 1..Len(s) : s[k] = sep /\ \A j \in 1..(k - 1) : s[j] # sep
         IN  <<SubSeq(s, 1, i - 1)>> \o Split(SubSeq(s, i + 1, Len(s)), sep)

HasPrefix(s, p) == Len(s) >= Len(p) /\ SubSeq(s, 1, Len(p)) = p

RECURSIVE Join(_, _)
Join(ss, sep) ==
    IF ss = <<>> THEN <<>>
    ELSE IF Len(ss) = 1 THEN ss[1]
    ELSE ss[1] \o <<sep>> \o Join(Tail(ss), sep)

ClusterPrefix == <<"m", "p", "k", "u", "b", "e", "-">>
DefaultName == ClusterPrefix \o <<"d", "e", "f", "a", "u", "l", "t">>

(***************************************************************************)
(* VM inventory: parseMultipassList.                                        *)
(***************************************************************************)
MinParts == 4

MakeVM(parts) ==
    LET n == TrimSpace(parts[1])
    IN  [Name  |-> n,
         State |-> TrimSpace(parts[2]),
         IPv4  |-> TrimSpace(parts[3]),
         Image |-> TrimSpace(parts[5]),
         IsK3s |-> HasPrefix(n, ClusterPrefix)]

\* The loop over lines[1:]: a line with fewer than MinParts parts is skipped;
\* parts[4] of a line with exactly 4 parts is an index out of range (a panic).
RECURSIVE ParseLines(_, _)
ParseLines(lines, acc) ==
    IF lines = <<>> THEN [panic |-> FALSE, vms |-> acc]
    ELSE LET parts == Split(Head(lines), COMMA)
         IN  IF Len(parts) < MinParts THEN ParseLines(Tail(lines), acc)
             ELSE IF Len(parts) < 5 THEN [panic |-> TRUE, vms |-> <<>>]
             ELSE ParseLines(Tail(lines), Append(acc, MakeVM(parts)))

parseMultipassList(out) ==
    LET lines == Split(TrimSpace(out), NL)
    IN  IF Len(lines) <= 1 THEN [panic |-> FALSE, vms |-> <<>>]
        ELSE ParseLines(Tail(lines), <<>>)

NoVM == [Name |-> <<>>, State |-> <<>>, IPv4 |-> <<>>, Image |-> <<>>, IsK3s |-> FALSE]

\* GetVMByName's loop over the parsed listing: the first VM whose Name equals n.
FindVM(list, n) ==
    IF \E i \in 1..Len(list) : list[i].Name = n
    THEN LET i == CHOOSE k \in 1..Len(list) :
                      list[k].Name = n /\ \A j \in 1..(k - 1) : list[j].Name # n
         IN  [kind |-> "vm", vm |-> list[i], name |-> n]
    ELSE [kind |-> "notfound", vm |-> NoVM, name |-> n]

\* GetK3sVMs' filter.
RECURSIVE FilterK3s(_)
FilterK3s(list) ==
    IF list = <<>> THEN <<>>
    ELSE IF HasPrefix(Head(list).Name, ClusterPrefix)
         THEN <<Head(list)>> \o FilterK3s(Tail(list))
         ELSE FilterK3s(Tail(list))

\* ListVMs on the reply of `multipass list --format csv`: reply.ok is FALSE
\* when the subprocess failed; otherwise reply.out is parsed.
ListVMs(reply) ==
    IF ~reply.ok THEN [kind |-> "error", vms |-> <<>>]
    ELSE LET p == parseMultipassList(reply.out)
         IN  IF p.panic THEN [kind |-> "panic", vms |-> <<>>]
             ELSE [kind |-> "ok", vms |-> p.vms]

\* GetVMByName and GetK3sVMs, given what their call of ListVMs returned.
GetVMByName(l, n) ==
    IF l.kind # "ok" THEN [kind |-> l.kind, vm |-> NoVM, name |-> n]
    ELSE FindVM(l.vms, n)

GetK3sVMs(l) ==
    IF l.kind # "ok" THEN l ELSE [kind |-> "ok", vms |-> FilterK3s(l.vms)]

(***************************************************************************)
(* Replies of the management tool to `list --format csv`: a header line and *)
(* up to a bounded number of data rows, each with 1..6 comma-separated      *)
(* fields (name, state, ipv4, release, image, extra).                       *)
(***************************************************************************)
Header == <<"N", ",", "S", ",", "I", ",", "R", ",", "M">>

RowText(n, ip, k) ==
    Join(SubSeq(<<n, <<"R">>, ip, <<"2">>, <<"U">>, <<"x">>>>, 1, k), COMMA)

RECURSIVE RowSeqs(_, _)
RowSeqs(rows, k) ==
    IF k = 0 THEN {<<>>}
    ELSE LET shorter == RowSeqs(rows, k - 1)
         IN  shorter \cup {Append(rs, r) : rs \in {x \in shorter : Len(x) = k - 1}, r \in rows}

ParseNames ==
    {<<>>, <<"a">>, <<"A">>, <<"a", "b">>, <<" ", "a">>, ClusterPrefix \o <<"a">>}
ParseRows == {RowText(n, <<"1">>, k) : n \in ParseNames, k \in {1, 3, 4, 5, 6}}
LookupNames == {<<"a">>, <<"A">>, <<"a", "b">>, <<"b">>, ClusterPrefix \o <<"a">>}

(***************************************************************************)
(* The state of a CLI command that has not started, and of the function      *)
(* specifications when they are not the ones running.                      *)
(***************************************************************************)
NoResult == [kind |-> "none", msg |-> "", cause |-> 0, withOutput |-> FALSE]

CliIdle ==
    /\ op = "none" /\ argName = <<>> /\ name = <<>> /\ force = FALSE
    /\ answer = [err |-> FALSE, line |-> <<>>]
    /\ issued = <<>> /\ result = NoResult /\ vm = NoVM /\ vms = <<>> /\ idx = 0
    /\ kubeconfigs = <<>>

ParseIdle ==
    /\ output = <<>> /\ reqName = <<>>
    /\ parsed = [panic |-> FALSE, vms |-> <<>>]
    /\ found = [kind |-> "none", vm |-> NoVM, name |-> <<>>]

MergeIdle == docs = <<>> /\ merged = [kind |-> "none"]

EnvIdle ==
    /\ host = [goos |-> "none"] /\ env = [kind |-> "none"]
    /\ args = <<>> /\ cmd = [name |-> <<>>, args |-> <<>>]
    /\ returned = [kind |-> "none"]

(***************************************************************************)
(* SpecParse: the inventory parser and the lookup by name, applied to the   *)
(* replies the tool can build from a header and up to MaxRows of ParseRows, *)
(* with or without a final newline.                                         *)
(***************************************************************************)
InitParse ==
    /\ pc = "reply"
    /\ output \in {<<>>, Header}
    /\ reqName = <<>>
    /\ parsed = [panic |-> FALSE, vms |-> <<>>]
    /\ found = [kind |-> "none", vm |-> NoVM, name |-> <<>>]
    /\ CliIdle /\ MergeIdle /\ EnvIdle

\* The tool writes one more row of its reply.
ReplyRow ==
    /\ pc = "reply"
    /\ Len(Split(output, NL)) <= MaxRows
    /\ \E r \in ParseRows : output' = output \o <<NL>> \o r
    /\ UNCHANGED <<pc, reqName, parsed, found>>
    /\ UNCHANGED cliVars /\ UNCHANGED mergeVars /\ UNCHANGED envVars

ParseList ==
    /\ pc = "reply"
    /\ \E end \in {<<>>, <<NL>>} :
          /\ output' = output \o end
          /\ parsed' = parseMultipassList(output \o end)
    /\ pc' = "lookup"
    /\ UNCHANGED <<reqName, found>>
    /\ UNCHANGED cliVars /\ UNCHANGED mergeVars /\ UNCHANGED envVars

LookupByName ==
    /\ pc = "lookup"
    /\ \E n \in LookupNames :
          /\ reqName' = n
          /\ found' = GetVMByName(ListVMs([ok |-> TRUE, out |-> output]), n)
    /\ pc' = "looked"
    /\ UNCHANGED <<output, parsed>>
    /\ UNCHANGED cliVars /\ UNCHANGED mergeVars /\ UNCHANGED envVars

NextParse == ReplyRow \/ ParseList \/ LookupByName

SpecParse == InitParse /\ [][NextParse]_vars

\* What the parse is specified to return: one record per data row that has
\* at least 5 fields, in the order of the rows.
DataLines(out) ==
    LET lines == Split(TrimSpace(out), NL)
    IN  IF Len(lines) <= 1 THEN <<>> ELSE Tail(lines)

FieldCount(line) == Len(Split(line, COMMA))
HasFiveFields(line) == FieldCount(line) >= 5

ExpectedVMs(out) ==
    LET rows == SelectSeq(DataLines(out), HasFiveFields)
    IN  [i \in 1..Len(rows) |-> MakeVM(Split(rows[i], COMMA))]

HasFourFieldRow(out) ==
    \E i \in 1..Len(DataLines(out)) : FieldCount(DataLines(out)[i]) = 4

\* C1: every data row with fewer than 5 fields (a row with exactly 4 fields
\* included) is silently excluded, the parse neither fails nor crashes, and
\* the well-formed rows of the same reply are still returned.
C1_ShortRowsExcluded ==
    pc \in {"lookup", "looked"} =>
        /\ ~parsed.panic
        /\ parsed.vms = ExpectedVMs(output)

\* What the code does for C1's rows: the claim's property holds of every
\* reply that has no row of exactly 4 fields.
ParseSkipsRowsBelowFourFields ==
    (pc \in {"lookup", "looked"} /\ ~HasFourFieldRow(output)) =>
        /\ ~parsed.panic
        /\ parsed.vms = ExpectedVMs(output)

ParsePanicsOnlyOnFourFieldRow ==
    pc \in {"lookup", "looked"} => (parsed.panic <=> HasFourFieldRow(output))

\* C2: the lookup returns the first record whose name equals the requested
\* name exactly; when no record has that name it returns NotFound carrying
\* the requested name; for no reply does the lookup panic.
C2_FindByNameExactOrNotFound ==
    pc = "looked" =>
        LET want == ExpectedVMs(output)
            hits == {i \in 1..Len(want) : want[i].Name = reqName}
        IN  /\ found.kind # "panic"
            /\ hits # {} =>
                   /\ found.kind = "vm"
                   /\ found.vm = want[CHOOSE i \in hits : \A j \in hits : i <= j]
            /\ hits = {} => (found.kind = "notfound" /\ found.name = reqName)

\* What the code does for C2's lookups: exact match or NotFound, on every
\* reply whose parse does not panic.
LookupExactWithoutFourFieldRow ==
    (pc = "looked" /\ ~HasFourFieldRow(output)) =>
        LET want == ExpectedVMs(output)
            hits == {i \in 1..Len(want) : want[i].Name = reqName}
        IN  /\ found.kind # "panic"
            /\ hits # {} =>
                   /\ found.kind = "vm"
                   /\ found.vm = want[CHOOSE i \in hits : \A j \in hits : i <= j]
            /\ hits = {} => (found.kind = "notfound" /\ found.name = reqName)

(***************************************************************************)
(* Credentials merge: MergeKubeconfigs and mergeConfig.                     *)
(*                                                                          *)
(* A credentials document is what clientcmd.Load returns for a kubeconfig   *)
(* text: four maps from entry name to entry, the current context and the    *)
(* preferences; loads = FALSE is a text that clientcmd.Load rejects.        *)
(***************************************************************************)
Collections == {"Clusters", "AuthInfos", "Contexts", "Extensions"}

EmptyMap == [k \in {} |-> 0]

\* api.NewConfig()
NewConfig ==
    [Clusters |-> EmptyMap, AuthInfos |-> EmptyMap, Contexts |-> EmptyMap,
     Extensions |-> EmptyMap, CurrentContext |-> <<>>, Preferences |-> 0]

\* One `for k, v := range b.X { if _, ok := ret.X[k]; !ok { ret.X[k] = v } }`.
MergeMap(am, bm) ==
    [k \in DOMAIN am \cup DOMAIN bm |-> IF k \in DOMAIN am THEN am[k] ELSE bm[k]]

OverwriteMap(am, bm) ==
    [k \in DOMAIN am \cup DOMAIN bm |-> IF k \in DOMAIN bm THEN bm[k] ELSE am[k]]

mergeConfigOverwritesExtensions(a, b) ==
    [Clusters       |-> MergeMap(a.Clusters, b.Clusters),
     AuthInfos      |-> MergeMap(a.AuthInfos, b.AuthInfos),
     Contexts       |-> MergeMap(a.Contexts, b.Contexts),
     Extensions     |-> OverwriteMap(a.Extensions, b.Extensions),
     CurrentContext |-> IF a.CurrentContext = <<>> THEN b.CurrentContext ELSE a.CurrentContext,
     Preferences    |-> b.Preferences]

mergeConfigOverwritesContext(a, b) ==
    [Clusters       |-> MergeMap(a.Clusters, b.Clusters),
     AuthInfos      |-> MergeMap(a.AuthInfos, b.AuthInfos),
     Contexts       |-> MergeMap(a.Contexts, b.Contexts),
     Extensions     |-> MergeMap(a.Extensions, b.Extensions),
     CurrentContext |-> b.CurrentContext,
     Preferences    |-> b.Preferences]

mergeConfig(a, b) ==
    [Clusters       |-> MergeMap(a.Clusters, b.Clusters),
     AuthInfos      |-> MergeMap(a.AuthInfos, b.AuthInfos),
     Contexts       |-> MergeMap(a.Contexts, b.Contexts),
     Extensions     |-> MergeMap(a.Extensions, b.Extensions),
     CurrentContext |-> IF a.CurrentContext = <<>> THEN b.CurrentContext ELSE a.CurrentContext,
     Preferences    |-> b.Preferences]

\* The loop of MergeKubeconfigs: load each text, fold it into merged; a text
\* that does not load ends the merge with its error.
RECURSIVE MergeLoop(_, _)
MergeLoop(ks, acc) ==
    IF ks = <<>> THEN [kind |-> "ok", cfg |-> acc]
    ELSE IF ~Head(ks).loads THEN [kind |-> "error", cfg |-> NewConfig]
    ELSE MergeLoop(Tail(ks), mergeConfig(acc, Head(ks).cfg))

MergeKubeconfigs(ks) ==
    IF Len(ks) = 0 THEN [kind |-> "error", cfg |-> NewConfig]
    ELSE MergeLoop(ks, NewConfig)

(***************************************************************************)
(* SpecMerge: the merge applied to every sequence of up to MaxDocs          *)
(* documents, collected one by one. The entries and the preferences of the i-th document carry    *)
(* the value i, so that the merged document shows where each value came     *)
(* from.                                                                    *)
(***************************************************************************)
Keys == {"a", "b"}

MapOf(ks, v) == [k \in ks |-> v]

DocsAt(i) ==
    {[loads |-> TRUE,
      cfg |-> [Clusters |-> MapOf(kc, i), AuthInfos |-> MapOf(ka, i),
               Contexts |-> MapOf(Keys \ kc, i), Extensions |-> MapOf(Keys \ ka, i),
               CurrentContext |-> cc, Preferences |-> i]]
        : kc \in SUBSET Keys, ka \in {{}, {"a"}, Keys}, cc \in {<<>>, <<"c", i>>}}
    \cup {[loads |-> FALSE, cfg |-> NewConfig]}

InitMerge ==
    /\ pc = "collect"
    /\ docs = <<>>
    /\ merged = [kind |-> "none"]
    /\ CliIdle /\ ParseIdle /\ EnvIdle

\* The caller appends one more document to the sequence it will merge.
CollectDoc ==
    /\ pc = "collect"
    /\ Len(docs) < MaxDocs
    /\ \E d \in DocsAt(Len(docs) + 1) : docs' = Append(docs, d)
    /\ UNCHANGED <<pc, merged>>
    /\ UNCHANGED cliVars /\ UNCHANGED parseVars /\ UNCHANGED envVars

MergeDocs ==
    /\ pc = "collect"
    /\ merged' = MergeKubeconfigs(docs)
    /\ pc' = "merged"
    /\ UNCHANGED docs
    /\ UNCHANGED cliVars /\ UNCHANGED parseVars /\ UNCHANGED envVars

NextMerge == CollectDoc \/ MergeDocs

SpecMerge == InitMerge /\ [][NextMerge]_vars

Holders(c, k) == {i \in 1..Len(docs) : k \in DOMAIN docs[i].cfg[c]}
Earliest(S) == CHOOSE i \in S : \A j \in S : i <= j

\* C3: for each of the four collections the merged key set is the union of
\* the key sets of all input documents, and the value of each key is the
\* value of the earliest document that contains the key.
C3_FirstWinsUnion ==
    (pc = "merged" /\ merged.kind = "ok") =>
        \A c \in Collections :
            /\ DOMAIN merged.cfg[c] = UNION {DOMAIN docs[i].cfg[c] : i \in 1..Len(docs)}
            /\ \A k \in DOMAIN merged.cfg[c] :
                   merged.cfg[c][k] = docs[Earliest(Holders(c, k))].cfg[c][k]

\* A merge of three documents in which, in every collection, a key of the
\* first document occurs again in a later one.
C3_Witness ==
    /\ pc = "merged" /\ merged.kind = "ok" /\ Len(docs) = 3
    /\ \A c \in Collections : \E k \in Keys : Cardinality(Holders(c, k)) >= 2

WithContext == {i \in 1..Len(docs) : docs[i].cfg.CurrentContext # <<>>}

\* C4: the merged current context is that of the first document whose
\* current context is non-empty (empty if there is none); the merged
\* preferences are those of the last document.
C4_ContextFirstPreferencesLast ==
    (pc = "merged" /\ merged.kind = "ok") =>
        /\ merged.cfg.CurrentContext =
               IF WithContext = {} THEN <<>>
               ELSE docs[Earliest(WithContext)].cfg.CurrentContext
        /\ merged.cfg.Preferences = docs[Len(docs)].cfg.Preferences

\* A merge whose first document has no current context and whose second and
\* third both have one.
C4_Witness ==
    /\ pc = "merged" /\ merged.kind = "ok" /\ Len(docs) = 3
    /\ WithContext = {2, 3}
    /\ merged.cfg.CurrentContext = <<"c", 2>>
    /\ merged.cfg.Preferences = 3

(***************************************************************************)
(* The CLI commands. Every invocation of the management tool is one step:   *)
(* the tool's reply is chosen by the environment, and the step runs the     *)
(* command's code up to its next invocation or its return.                  *)
(*                                                                          *)
(* issued records the invocations in order: the subcommand, the VM it       *)
(* names, the address passed to the remote install, whether the subprocess  *)
(* succeeded, and whether its captured output held "does not exist".        *)
(* result is what the command returned: for an error, its message, the      *)
(* index in issued of the invocation whose error it wraps (0: none) and     *)
(* whether the text includes that invocation's captured output.             *)
(***************************************************************************)
Uppers == <<"A", "B", "C", "D", "E", "F", "G", "H", "I", "J", "K", "L", "M",
            "N", "O", "P", "Q", "R", "S", "T", "U", "V", "W", "X", "Y", "Z">>
Lowers == <<"a", "b", "c", "d", "e", "f", "g", "h", "i", "j", "k", "l", "m",
            "n", "o", "p", "q", "r", "s", "t", "u", "v", "w", "x", "y", "z">>

ToLowerChar(c) ==
    IF \E i \in 1..Len(Uppers) : Uppers[i] = c
    THEN Lowers[CHOOSE i \in 1..Len(Uppers) : Uppers[i] = c]
    ELSE c

ToLower(s) == [i \in 1..Len(s) |-> ToLowerChar(s[i])]

Contains(s, sub) ==
    \E i \in 0..(Len(s) - Len(sub)) : SubSeq(s, i + 1, i + Len(sub)) = sub

DoesNotExist ==
    <<"d", "o", "e", "s", " ", "n", "o", "t", " ", "e", "x", "i", "s", "t">>

EnsurePrefixNever(n) == n

\* if !strings.HasPrefix(name, "mpkube-") { name = "mpkube-" + name }
EnsurePrefix(n) == IF HasPrefix(n, ClusterPrefix) THEN n ELSE ClusterPrefix \o n

Entry(sub, v, addr, ok, absent) ==
    [sub |-> sub, vm |-> v, addr |-> addr, ok |-> ok, absent |-> absent]
ListEntry(l) == Entry("list", <<>>, <<>>, l.kind # "error", FALSE)

Error(msg, cause, withOutput) ==
    [kind |-> "error", msg |-> msg, cause |-> cause, withOutput |-> withOutput]
Success == [kind |-> "ok", msg |-> "", cause |-> 0, withOutput |-> FALSE]
Panic == [kind |-> "panic", msg |-> "index out of range", cause |-> 0, withOutput |-> FALSE]
EnvError == Error("failed to initialize multipass environment", 0, FALSE)

(***************************************************************************)
(* The environment: replies to `list`, user input, generated identifiers.   *)
(***************************************************************************)
VMa == ClusterPrefix \o <<"a">>
CliRows ==
    {RowText(VMa, <<>>, 5), RowText(VMa, <<"1">>, 5), RowText(DefaultName, <<"2">>, 5),
     RowText(<<"b">>, <<"3">>, 5), RowText(VMa, <<"1">>, 4)}
ListReplies ==
    {[ok |-> TRUE, out |-> Join(<<Header>> \o rs, NL)] : rs \in RowSeqs(CliRows, MaxVMs)}
    \cup {[ok |-> FALSE, out |-> <<>>]}
Listings == {ListVMs(r) : r \in ListReplies}

\* strings.Split(uuid.New().String(), "-")[0]: eight hexadecimal digits.
HexDigits == {"0", "1", "2", "3", "4", "5", "6", "7", "8", "9", "a", "b", "c", "d", "e", "f"}
ShortIDs ==
    {<<"d", "e", "f", "a", "0", "1", "2", "3">>, <<"0", "a", "1", "b", "2", "c", "3", "d">>}

UserNames == {<<>>, <<"a">>, VMa, <<"m", "p", "k", "u", "b", "e">>, DefaultName}

\* What reader.ReadString('\n') returns at the confirmation prompt: a line
\* with its newline, or what was typed before the end of input and an error.
Typed == {<<"y">>, <<"Y", "e", "s">>, <<" ", "y", "e", "s", " ">>, <<"n">>, <<>>,
          <<"y", "e">>, <<"y", "e", "s", "s">>}
Answers ==
    {[err |-> FALSE, line |-> t \o <<NL>>] : t \in Typed}
    \cup {[err |-> TRUE, line |-> t] : t \in {<<>>, <<"y">>}}

DeleteOutputs ==
    {<<>>, <<"b", "u", "s", "y">>, <<"x", " ">> \o DoesNotExist \o <<".">>}

(***************************************************************************)
(* create                                                                   *)
(***************************************************************************)
ResolveNameAlwaysDefault(managed, shortID) == DefaultName

\* createCluster's choice of a name when none was given.
ResolveName(managed, shortID) ==
    IF Len(managed) = 0 THEN DefaultName ELSE ClusterPrefix \o shortID

StartCreate ==
    /\ pc = "idle"
    /\ \E n \in UserNames, envOk \in BOOLEAN :
          /\ op' = "create"
          /\ argName' = n
          /\ IF ~envOk
             THEN /\ result' = EnvError /\ pc' = "done" /\ name' = n
             ELSE /\ result' = result
                  /\ IF n = <<>>
                     THEN pc' = "create_resolve" /\ name' = n
                     ELSE pc' = "create_launch" /\ name' = EnsurePrefix(n)
    /\ UNCHANGED <<force, answer, issued, vm, vms, idx, kubeconfigs>>
    /\ UNCHANGED parseVars /\ UNCHANGED mergeVars /\ UNCHANGED envVars

\* mp.GetK3sVMs() and the choice of the name.
CreateResolve ==
    /\ pc = "create_resolve"
    /\ \E l \in Listings, id \in ShortIDs :
          LET k == GetK3sVMs(l)
          IN  /\ issued' = Append(issued, ListEntry(l))
              /\ CASE k.kind = "error" ->
                        /\ result' = Error("failed to list VMs", Len(issued) + 1, FALSE)
                        /\ pc' = "done"
                        /\ UNCHANGED <<name, vms>>
                   [] k.kind = "panic" ->
                        /\ result' = Panic
                        /\ pc' = "done"
                        /\ UNCHANGED <<name, vms>>
                   [] OTHER ->
                        /\ name' = EnsurePrefix(ResolveName(k.vms, id))
                        /\ vms' = k.vms
                        /\ pc' = "create_launch"
                        /\ UNCHANGED result
    /\ UNCHANGED <<op, argName, force, answer, vm, idx, kubeconfigs>>
    /\ UNCHANGED parseVars /\ UNCHANGED mergeVars /\ UNCHANGED envVars

\* multipass launch --name <name> --cpus .. --memory .. --disk .. 24.04
CreateLaunchIgnoringFailure ==
    /\ pc = "create_launch"
    /\ \E ok \in BOOLEAN :
          /\ issued' = Append(issued, Entry("launch", name, <<>>, ok, FALSE))
          /\ pc' = "create_lookup"
          /\ UNCHANGED result
    /\ UNCHANGED <<op, argName, name, force, answer, vm, vms, idx, kubeconfigs>>
    /\ UNCHANGED parseVars /\ UNCHANGED mergeVars /\ UNCHANGED envVars

CreateLaunch ==
    /\ pc = "create_launch"
    /\ \E ok \in BOOLEAN :
          /\ issued' = Append(issued, Entry("launch", name, <<>>, ok, FALSE))
          /\ IF ok
             THEN pc' = "create_lookup" /\ UNCHANGED result
             ELSE /\ result' = Error("failed to launch VM", Len(issued) + 1, TRUE)
                  /\ pc' = "done"
    /\ UNCHANGED <<op, argName, name, force, answer, vm, vms, idx, kubeconfigs>>
    /\ UNCHANGED parseVars /\ UNCHANGED mergeVars /\ UNCHANGED envVars

\* A lookup by name inside a command: on a failed listing or an absent VM
\* the command returns an error with message msg, else it goes on at pc next.
Lookup(n, msg, next) ==
    \E l \in Listings :
        LET f == GetVMByName(l, n)
        IN  /\ issued' = Append(issued, ListEntry(l))
            /\ CASE f.kind = "vm" ->
                      /\ vm' = f.vm /\ pc' = next /\ UNCHANGED result
                 [] f.kind = "panic" ->
                      /\ result' = Panic /\ pc' = "done" /\ UNCHANGED vm
                 [] f.kind = "error" ->
                      /\ result' = Error(msg, Len(issued) + 1, FALSE)
                      /\ pc' = "done" /\ UNCHANGED vm
                 [] OTHER ->
                      /\ result' = Error(msg, 0, FALSE)
                      /\ pc' = "done" /\ UNCHANGED vm

\* vm, err := mp.GetVMByName(name)
CreateLookup ==
    /\ pc = "create_lookup"
    /\ Lookup(name, "failed to get VM details", "install_lookup")
    /\ UNCHANGED <<op, argName, name, force, answer, vms, idx, kubeconfigs>>
    /\ UNCHANGED parseVars /\ UNCHANGED mergeVars /\ UNCHANGED envVars

\* InstallK3s: vm, err := mp.GetVMByName(vmName)
InstallLookup ==
    /\ pc = "install_lookup"
    /\ Lookup(name, "failed to install k3s", "install_exec")
    /\ UNCHANGED <<op, argName, name, force, answer, vms, idx, kubeconfigs>>
    /\ UNCHANGED parseVars /\ UNCHANGED mergeVars /\ UNCHANGED envVars

InstallExecSwallowsError ==
    /\ pc = "install_exec"
    /\ \E ok \in BOOLEAN :
          /\ issued' = Append(issued, Entry("install", name, vm.IPv4, ok, FALSE))
          /\ result' = Success
          /\ pc' = "done"
    /\ UNCHANGED <<op, argName, name, force, answer, vm, vms, idx, kubeconfigs>>
    /\ UNCHANGED parseVars /\ UNCHANGED mergeVars /\ UNCHANGED envVars

\* InstallK3s: multipass exec <vmName> -- bash -c "curl .. --advertise-address=<ip> --node-ip=<ip> .."
InstallExec ==
    /\ pc = "install_exec"
    /\ \E ok \in BOOLEAN :
          /\ issued' = Append(issued, Entry("install", name, vm.IPv4, ok, FALSE))
          /\ result' = IF ok THEN Success
                       ELSE Error("failed to install k3s", Len(issued) + 1, FALSE)
          /\ pc' = "done"
    /\ UNCHANGED <<op, argName, name, force, answer, vm, vms, idx, kubeconfigs>>
    /\ UNCHANGED parseVars /\ UNCHANGED mergeVars /\ UNCHANGED envVars

(***************************************************************************)
(* delete                                                                   *)
(***************************************************************************)
ConfirmedUnlessNo(line) ==
    TrimSpace(ToLower(line)) \notin {<<"n">>, <<"n", "o">>}

\* input = strings.TrimSpace(strings.ToLower(input)); input == "y" || input == "yes"
Confirmed(line) ==
    TrimSpace(ToLower(line)) \in {<<"y">>, <<"y", "e", "s">>}

DeleteVMStrict(ok, out, at) ==
    IF ok THEN Success ELSE Error("failed to delete cluster", at, TRUE)

\* What DeleteVM returns (and deleteCluster wraps) for the reply to
\* `delete <name> --purge`, the invocation at index `at` of issued.
DeleteVM(ok, out, at) ==
    IF ok THEN Success
    ELSE IF Contains(out, DoesNotExist) THEN Success
    ELSE Error("failed to delete cluster", at, TRUE)

StartDelete ==
    /\ pc = "idle"
    /\ \E n \in UserNames, f \in BOOLEAN, envOk \in BOOLEAN :
          /\ op' = "delete"
          /\ argName' = n
          /\ force' = f
          /\ IF ~envOk
             THEN /\ result' = EnvError /\ pc' = "done" /\ name' = n
             ELSE /\ result' = result /\ pc' = "delete_lookup" /\ name' = EnsurePrefix(n)
    /\ UNCHANGED <<answer, issued, vm, vms, idx, kubeconfigs>>
    /\ UNCHANGED parseVars /\ UNCHANGED mergeVars /\ UNCHANGED envVars

\* vm, err := mp.GetVMByName(name)
DeleteLookup ==
    /\ pc = "delete_lookup"
    /\ Lookup(name, "cluster not found", IF force THEN "delete_stop" ELSE "delete_confirm")
    /\ UNCHANGED <<op, argName, name, force, answer, vms, idx, kubeconfigs>>
    /\ UNCHANGED parseVars /\ UNCHANGED mergeVars /\ UNCHANGED envVars

\* The confirmation prompt of a delete without --force.
DeleteConfirm ==
    /\ pc = "delete_confirm"
    /\ \E a \in Answers :
          /\ answer' = a
          /\ IF a.err
             THEN result' = Error("failed to read input", 0, FALSE) /\ pc' = "done"
             ELSE IF ~Confirmed(a.line)
             THEN result' = Success /\ pc' = "done"
             ELSE pc' = "delete_stop" /\ UNCHANGED result
    /\ UNCHANGED <<op, argName, name, force, issued, vm, vms, idx, kubeconfigs>>
    /\ UNCHANGED parseVars /\ UNCHANGED mergeVars /\ UNCHANGED envVars

\* DeleteVM: _, _ = m.RunMultipassCmd("stop", name)
DeleteStop ==
    /\ pc = "delete_stop"
    /\ \E ok \in BOOLEAN :
          issued' = Append(issued, Entry("stop", name, <<>>, ok, FALSE))
    /\ pc' = "delete_purge"
    /\ UNCHANGED <<op, argName, name, force, answer, result, vm, vms, idx, kubeconfigs>>
    /\ UNCHANGED parseVars /\ UNCHANGED mergeVars /\ UNCHANGED envVars

\* DeleteVM: output, err := m.RunMultipassCmd("delete", name, "--purge")
DeletePurge ==
    /\ pc = "delete_purge"
    /\ \E ok \in BOOLEAN, out \in DeleteOutputs :
          /\ issued' = Append(issued,
                              Entry("delete", name, <<>>, ok, Contains(out, DoesNotExist)))
          /\ result' = DeleteVM(ok, out, Len(issued) + 1)
    /\ pc' = "done"
    /\ UNCHANGED <<op, argName, name, force, answer, vm, vms, idx, kubeconfigs>>
    /\ UNCHANGED parseVars /\ UNCHANGED mergeVars /\ UNCHANGED envVars

(***************************************************************************)
(* kubeconfig get                                                           *)
(***************************************************************************)
\* Saving or printing a kubeconfig: os.MkdirAll and os.WriteFile may fail.
WriteResults ==
    {Success, Error("failed to create directory", 0, FALSE),
     Error("failed to write kubeconfig", 0, FALSE)}

StartGet ==
    /\ pc = "idle"
    /\ \E n \in UserNames, envOk \in BOOLEAN :
          /\ op' = "get"
          /\ argName' = n
          /\ IF ~envOk
             THEN /\ result' = EnvError /\ pc' = "done" /\ name' = n
             ELSE /\ result' = result
                  /\ IF n = <<>>
                     THEN pc' = "get_resolve" /\ name' = n
                     ELSE pc' = "get_cat" /\ name' = EnsurePrefix(n)
    /\ UNCHANGED <<force, answer, issued, vm, vms, idx, kubeconfigs>>
    /\ UNCHANGED parseVars /\ UNCHANGED mergeVars /\ UNCHANGED envVars

\* getKubeconfig without a name: the only managed VM is selected.
GetResolve ==
    /\ pc = "get_resolve"
    /\ \E l \in Listings :
          LET k == GetK3sVMs(l)
          IN  /\ issued' = Append(issued, ListEntry(l))
              /\ CASE k.kind = "error" ->
                        /\ result' = Error("failed to list clusters", Len(issued) + 1, FALSE)
                        /\ pc' = "done" /\ UNCHANGED <<name, vms>>
                   [] k.kind = "panic" ->
                        /\ result' = Panic
                        /\ pc' = "done" /\ UNCHANGED <<name, vms>>
                   [] k.kind = "ok" /\ Len(k.vms) = 0 ->
                        /\ result' = Error("no clusters found", 0, FALSE)
                        /\ pc' = "done" /\ vms' = k.vms /\ UNCHANGED name
                   [] k.kind = "ok" /\ Len(k.vms) = 1 ->
                        /\ name' = EnsurePrefix(k.vms[1].Name)
                        /\ pc' = "get_cat" /\ vms' = k.vms /\ UNCHANGED result
                   [] OTHER ->
                        /\ result' = Error("cluster name required", 0, FALSE)
                        /\ pc' = "done" /\ vms' = k.vms /\ UNCHANGED name
    /\ UNCHANGED <<op, argName, force, answer, vm, idx, kubeconfigs>>
    /\ UNCHANGED parseVars /\ UNCHANGED mergeVars /\ UNCHANGED envVars

\* GetKubeconfig: multipass exec <vmName> -- sudo cat /etc/rancher/k3s/k3s.yaml
GetCat ==
    /\ pc = "get_cat"
    /\ \E ok \in BOOLEAN :
          /\ issued' = Append(issued, Entry("cat", name, <<>>, ok, FALSE))
          /\ IF ok
             THEN pc' = "get_lookup" /\ UNCHANGED result
             ELSE /\ result' = Error("failed to get kubeconfig", Len(issued) + 1, FALSE)
                  /\ pc' = "done"
    /\ UNCHANGED <<op, argName, name, force, answer, vm, vms, idx, kubeconfigs>>
    /\ UNCHANGED parseVars /\ UNCHANGED mergeVars /\ UNCHANGED envVars

\* GetKubeconfig: vm, err := mp.GetVMByName(vmName)
GetLookup ==
    /\ pc = "get_lookup"
    /\ Lookup(name, "failed to get kubeconfig", "get_write")
    /\ UNCHANGED <<op, argName, name, force, answer, vms, idx, kubeconfigs>>
    /\ UNCHANGED parseVars /\ UNCHANGED mergeVars /\ UNCHANGED envVars

GetWrite ==
    /\ pc = "get_write"
    /\ result' \in WriteResults
    /\ pc' = "done"
    /\ UNCHANGED <<op, argName, name, force, answer, issued, vm, vms, idx, kubeconfigs>>
    /\ UNCHANGED parseVars /\ UNCHANGED mergeVars /\ UNCHANGED envVars

(***************************************************************************)
(* kubeconfig merge                                                         *)
(***************************************************************************)
\* The document GetKubeconfig returns for the i-th managed VM, named n: the
\* k3s.yaml of the VM with "default" replaced by the VM's name; loads is
\* FALSE when the text is one clientcmd.Load rejects.
FetchedDoc(i, n, loads) ==
    IF loads
    THEN [loads |-> TRUE, from |-> i,
          cfg |-> [Clusters |-> (n :> i), AuthInfos |-> (n :> i), Contexts |-> (n :> i),
                   Extensions |-> EmptyMap, CurrentContext |-> n, Preferences |-> 0]]
    ELSE [loads |-> FALSE, from |-> i, cfg |-> NewConfig]

StartMerge ==
    /\ pc = "idle"
    /\ \E envOk \in BOOLEAN :
          /\ op' = "merge"
          /\ IF ~envOk
             THEN result' = EnvError /\ pc' = "done"
             ELSE result' = result /\ pc' = "merge_list"
    /\ UNCHANGED <<argName, name, force, answer, issued, vm, vms, idx, kubeconfigs>>
    /\ UNCHANGED parseVars /\ UNCHANGED mergeVars /\ UNCHANGED envVars

\* vms, err := mp.GetK3sVMs()
MergeList ==
    /\ pc = "merge_list"
    /\ \E l \in Listings :
          LET k == GetK3sVMs(l)
          IN  /\ issued' = Append(issued, ListEntry(l))
              /\ CASE k.kind = "error" ->
                        /\ result' = Error("failed to list clusters", Len(issued) + 1, FALSE)
                        /\ pc' = "done" /\ UNCHANGED <<vms, idx>>
                   [] k.kind = "panic" ->
                        /\ result' = Panic
                        /\ pc' = "done" /\ UNCHANGED <<vms, idx>>
                   [] k.kind = "ok" /\ Len(k.vms) = 0 ->
                        /\ result' = Error("no clusters found", 0, FALSE)
                        /\ pc' = "done" /\ UNCHANGED <<vms, idx>>
                   [] OTHER ->
                        /\ vms' = k.vms /\ idx' = 1
                        /\ pc' = "merge_cat" /\ UNCHANGED result
    /\ UNCHANGED <<op, argName, name, force, answer, vm, kubeconfigs>>
    /\ UNCHANGED parseVars /\ UNCHANGED mergeVars /\ UNCHANGED envVars

\* The loop `for _, vm := range vms` moves on to its next VM, or ends.
NextVM ==
    /\ idx' = idx + 1
    /\ pc' = IF idx + 1 > Len(vms) THEN "merge_fold" ELSE "merge_cat"

\* A loop that would return the failure of a fetch instead of going on.
MergeCatAbortsOnFailure ==
    /\ pc = "merge_cat"
    /\ \E ok \in BOOLEAN :
          /\ issued' = Append(issued, Entry("cat", vms[idx].Name, <<>>, ok, FALSE))
          /\ IF ok
             THEN pc' = "merge_lookup" /\ UNCHANGED result
             ELSE /\ pc' = "done"
                  /\ result' = Error("failed to get kubeconfig", Len(issued) + 1, FALSE)
    /\ UNCHANGED <<op, argName, name, force, answer, vm, vms, idx, kubeconfigs>>
    /\ UNCHANGED parseVars /\ UNCHANGED mergeVars /\ UNCHANGED envVars

\* GetKubeconfig(mp, vm.Name): the exec of cat; on failure a warning is
\* printed and the loop continues.
MergeCat ==
    /\ pc = "merge_cat"
    /\ \E ok \in BOOLEAN :
          /\ issued' = Append(issued, Entry("cat", vms[idx].Name, <<>>, ok, FALSE))
          /\ IF ok THEN pc' = "merge_lookup" /\ UNCHANGED idx ELSE NextVM
    /\ UNCHANGED <<op, argName, name, force, answer, result, vm, vms, kubeconfigs>>
    /\ UNCHANGED parseVars /\ UNCHANGED mergeVars /\ UNCHANGED envVars

\* GetKubeconfig(mp, vm.Name): the lookup of the VM's address; the fetched
\* document is appended, or a warning is printed and the loop continues.
MergeLookup ==
    /\ pc = "merge_lookup"
    /\ \E l \in Listings, loads \in BOOLEAN :
          LET f == GetVMByName(l, vms[idx].Name)
          IN  /\ issued' = Append(issued, ListEntry(l))
              /\ CASE f.kind = "vm" ->
                        /\ vm' = f.vm
                        /\ kubeconfigs' =
                               Append(kubeconfigs, FetchedDoc(idx, vms[idx].Name, loads))
                        /\ NextVM /\ UNCHANGED result
                   [] f.kind = "panic" ->
                        /\ result' = Panic /\ pc' = "done"
                        /\ UNCHANGED <<vm, kubeconfigs, idx>>
                   [] OTHER ->
                        /\ NextVM /\ UNCHANGED <<vm, kubeconfigs, result>>
    /\ UNCHANGED <<op, argName, name, force, answer, vms>>
    /\ UNCHANGED parseVars /\ UNCHANGED mergeVars /\ UNCHANGED envVars

\* After the loop: the merge of the collected documents, then save or print.
MergeFold ==
    /\ pc = "merge_fold"
    /\ IF Len(kubeconfigs) = 0
       THEN result' = Error("failed to get any kubeconfigs", 0, FALSE) /\ UNCHANGED merged
       ELSE LET m == MergeKubeconfigs(kubeconfigs)
            IN  /\ merged' = m
                /\ IF m.kind = "error"
                   THEN result' = Error("failed to merge kubeconfigs", 0, FALSE)
                   ELSE result' \in WriteResults
    /\ pc' = "done"
    /\ UNCHANGED <<op, argName, name, force, answer, issued, vm, vms, idx, kubeconfigs>>
    /\ UNCHANGED parseVars /\ UNCHANGED docs /\ UNCHANGED envVars

(***************************************************************************)
(* Spec: one run of one CLI command.                                        *)
(***************************************************************************)
Init ==
    /\ pc = "idle"
    /\ CliIdle /\ ParseIdle /\ MergeIdle /\ EnvIdle

Next ==
    \/ StartCreate \/ CreateResolve \/ CreateLaunch \/ CreateLookup
    \/ InstallLookup \/ InstallExec
    \/ StartDelete \/ DeleteLookup \/ DeleteConfirm \/ DeleteStop \/ DeletePurge
    \/ StartGet \/ GetResolve \/ GetCat \/ GetLookup \/ GetWrite
    \/ StartMerge \/ MergeList \/ MergeCat \/ MergeLookup \/ MergeFold

Spec == Init /\ [][Next]_vars

(***************************************************************************)
(* Properties of the CLI commands.                                          *)
(***************************************************************************)
Issued(sub) == {i \in 1..Len(issued) : issued[i].sub = sub}
NamingVM == {i \in 1..Len(issued) : issued[i].sub # "list"}
LastIssued == issued[Len(issued)]

AnsweredYes ==
    /\ ~answer.err
    /\ \E t \in {<<"y">>, <<"y", "e", "s">>} : TrimSpace(ToLower(answer.line)) = t

\* C6: delete issues no stop and no delete unless --force is set or the
\* user answered the prompt with y/yes; once confirmed it issues stop and
\* then delete-and-purge on the same name, the delete whether the stop
\* succeeded or failed, and a failure of the stop is never returned.
C6_DeleteOnlyWhenConfirmed ==
    op = "delete" =>
        /\ (Issued("stop") \cup Issued("delete") # {}) => (force \/ AnsweredYes)
        /\ \A i \in Issued("delete") :
               i > 1 /\ issued[i - 1].sub = "stop" /\ issued[i - 1].vm = issued[i].vm
        /\ \A i \in Issued("stop") :
               /\ issued[i].vm = name
               /\ IF i = Len(issued) THEN pc = "delete_purge"
                  ELSE issued[i + 1].sub = "delete"
        /\ (pc = "done" /\ vm # NoVM /\ (force \/ AnsweredYes)) =>
               (Issued("stop") # {} /\ Issued("delete") # {})
        /\ result.cause \notin Issued("stop")

\* A confirmed delete without --force whose stop failed and whose
\* delete-and-purge was issued all the same.
C6_Witness ==
    /\ pc = "done" /\ op = "delete" /\ ~force /\ AnsweredYes
    /\ \E i \in Issued("stop") : ~issued[i].ok /\ issued[i + 1].sub = "delete"
    /\ result.kind = "ok"

IsShortID(s) == Len(s) = 8 /\ \A i \in 1..Len(s) : s[i] \in HexDigits

\* C7: create without a name launches "mpkube-default" when the inventory
\* holds no managed VM, and the prefix followed by a generated short suffix
\* (never the default name) when it holds at least one; when the listing
\* fails, create fails and no launch is issued.
C7_CreateNameResolution ==
    (op = "create" /\ argName = <<>>) =>
        /\ \A i \in Issued("launch") :
               /\ Len(vms) = 0 => issued[i].vm = DefaultName
               /\ Len(vms) >= 1 =>
                      /\ issued[i].vm # DefaultName
                      /\ HasPrefix(issued[i].vm, ClusterPrefix)
                      /\ IsShortID(SubSeq(issued[i].vm, Len(ClusterPrefix) + 1,
                                          Len(issued[i].vm)))
        /\ (issued # <<>> /\ ~issued[1].ok) =>
               /\ Issued("launch") = {}
               /\ pc = "done" /\ result.kind = "error"

\* A create without a name that found a managed VM and launched a VM under
\* a generated name.
C7_Witness ==
    /\ op = "create" /\ argName = <<>> /\ Len(vms) >= 1
    /\ \E i \in Issued("launch") : issued[i].vm = ClusterPrefix \o <<"d", "e", "f", "a", "0", "1", "2", "3">>

\* The invocations of create after the name is resolved.
CreateSteps == IF argName = <<>> /\ issued # <<>> THEN Tail(issued) ELSE issued
CreateOrder == <<"launch", "list", "list", "install">>

\* C8: create issues launch, the lookup of the new VM by name, and the
\* remote install (InstallK3s: its own lookup, then the exec) in this
\* order; it reports success only if all succeeded; a failed step returns
\* an error at once, no later step is issued, and no stop or delete is
\* ever issued.
C8_CreateOrderNoRollback ==
    op = "create" =>
        /\ Len(CreateSteps) <= Len(CreateOrder)
        /\ \A i \in 1..Len(CreateSteps) :
               /\ CreateSteps[i].sub = CreateOrder[i]
               /\ CreateSteps[i].sub # "list" => CreateSteps[i].vm = name
               /\ i < Len(CreateSteps) => CreateSteps[i].ok
        /\ result.kind = "ok" <=>
               /\ pc = "done" /\ Len(CreateSteps) = Len(CreateOrder)
               /\ \A i \in 1..Len(CreateSteps) : CreateSteps[i].ok
        /\ (CreateSteps # <<>> /\ ~LastIssued.ok) =>
               /\ pc = "done" /\ result.kind = "error" /\ result.cause = Len(issued)
        /\ Issued("stop") \cup Issued("delete") = {}

\* A create whose launch succeeded and whose install failed: an error is
\* returned and the launched VM is neither stopped nor deleted.
C8_Witness ==
    /\ pc = "done" /\ op = "create" /\ result.kind = "error"
    /\ \E i \in Issued("launch") : issued[i].ok
    /\ \E i \in Issued("install") : ~issued[i].ok
    /\ Issued("stop") \cup Issued("delete") = {}

\* C9: every invocation that names a VM names one carrying the prefix
\* "mpkube-"; a name the user gave with the prefix is passed unchanged, a
\* bare one gets the prefix once; ensuring the prefix twice equals once.
C9_IssuedNamesCarryPrefix ==
    /\ \A i \in NamingVM :
           /\ HasPrefix(issued[i].vm, ClusterPrefix)
           /\ EnsurePrefix(issued[i].vm) = issued[i].vm
           /\ (op \in {"create", "delete", "get"} /\ argName # <<>>) =>
                  issued[i].vm = IF HasPrefix(argName, ClusterPrefix) THEN argName
                                 ELSE ClusterPrefix \o argName
    /\ EnsurePrefix(EnsurePrefix(argName)) = EnsurePrefix(argName)

\* A create given the bare name "a" that launched and installed "mpkube-a".
C9_Witness ==
    /\ pc = "done" /\ op = "create" /\ argName = <<"a">> /\ result.kind = "ok"
    /\ \A i \in NamingVM : issued[i].vm = VMa
    /\ Issued("launch") # {} /\ Issued("install") # {}

FailedNotStop == {i \in 1..Len(issued) : ~issued[i].ok /\ issued[i].sub # "stop"}

\* C10 as stated: every subprocess failure other than the stop before
\* delete is returned as an error wrapping the failure together with the
\* output captured from that invocation.
C10_FailuresWrappedWithOutput ==
    pc = "done" =>
        \A i \in FailedNotStop :
            result.kind = "error" /\ result.cause = i /\ result.withOutput

\* C10 as amended: a subprocess failure other than the stop is returned as
\* an error wrapping the failure, except a delete-and-purge whose output
\* holds "does not exist" (success) and the fetch steps of the merge loop
\* (a warning, the loop continues); the error text includes the captured
\* output for launch and delete-and-purge only.
C10_FailuresSurfacedOutputOnlyLaunchDelete ==
    pc = "done" =>
        \A i \in FailedNotStop :
            IF issued[i].sub = "delete" /\ issued[i].absent
            THEN result.kind = "ok"
            ELSE IF op = "merge" /\ i > 1
            THEN result.cause = 0
            ELSE /\ result.kind = "error" /\ result.cause = i
                 /\ result.withOutput <=> issued[i].sub \in {"launch", "delete"}

\* A kubeconfig get whose fetch failed: the error is returned, without the
\* captured output.
C10_Witness ==
    /\ pc = "done" /\ op = "get"
    /\ \E i \in Issued("cat") :
           ~issued[i].ok /\ result.kind = "error" /\ result.cause = i /\ ~result.withOutput

\* C12: during create the remote install is issued only for a VM found in
\* the inventory with an assigned (non-empty) address, and the address
\* passed to the install is that VM's address.
C12_InstallOnlyWithAssignedAddress ==
    op = "create" =>
        \A i \in Issued("install") :
            /\ vm.Name = issued[i].vm
            /\ issued[i].addr = vm.IPv4
            /\ issued[i].addr # <<>>

\* What the code does for C12's install: the address passed is the one the
\* listing shows for the VM found by name, empty or not.
InstallPassesListedAddress ==
    op = "create" =>
        \A i \in Issued("install") :
            vm.Name = issued[i].vm /\ issued[i].addr = vm.IPv4

(***************************************************************************)
(* The environment resolver (NewMultipassEnv) and the command runner        *)
(* (RunMultipassCmd).  The machine is a record of the answers it gives to   *)
(* the resolver's probes: runtime.GOOS, /proc/sys/kernel/osrelease, the     *)
(* names exec.LookPath finds, the paths os.Stat finds, the reply of         *)
(* `wsl -l -q`, the distributions in which `true` runs and those in which   *)
(* `which multipass` succeeds.                                              *)
(***************************************************************************)
MaxDistros == 2
MaxArgs == 2

WinProgramFiles ==
    <<"C", ":", "\\", "P", "r", "o", "g", "r", "a", "m", " ", "F", "i", "l", "e", "s", "\\",
    "M", "u", "l", "t", "i", "p", "a", "s", "s", "\\", "b", "i", "n", "\\", "m", "u", "l",
    "t", "i", "p", "a", "s", "s", ".", "e", "x", "e">>
MultipassExe == <<"m", "u", "l", "t", "i", "p", "a", "s", "s", ".", "e", "x", "e">>
MntProgramFiles ==
    <<"/", "m", "n", "t", "/", "c", "/", "P", "r", "o", "g", "r", "a", "m", " ", "F", "i",
    "l", "e", "s", "/", "M", "u", "l", "t", "i", "p", "a", "s", "s", "/", "b", "i", "n", "/",
    "m", "u", "l", "t", "i", "p", "a", "s", "s", ".", "e", "x", "e">>
MntSystem32 ==
    <<"/", "m", "n", "t", "/", "c", "/", "W", "i", "n", "d", "o", "w", "s", "/", "S", "y",
    "s", "t", "e", "m", "3", "2", "/", "m", "u", "l", "t", "i", "p", "a", "s", "s", ".", "e",
    "x", "e">>
Multipass == <<"m", "u", "l", "t", "i", "p", "a", "s", "s">>
Wsl == <<"w", "s", "l">>
CmdExe == <<"c", "m", "d", ".", "e", "x", "e">>
ExeSuffix == <<".", "e", "x", "e">>
WSLMarker == <<"W", "S", "L">>
DashD == <<"-", "d">>
ShellType == <<"-", "-", "s", "h", "e", "l", "l", "-", "t", "y", "p", "e">>
Login == <<"l", "o", "g", "i", "n">>
SlashC == <<"/", "c">>
List == <<"l", "i", "s", "t">>
Format == <<"-", "-", "f", "o", "r", "m", "a", "t">>
SomeOutput == <<"o", "k">>
WSLRelease == <<"5", ".", "1", "5", "-", "m", "i", "c", "r", "o", "s", "o", "f", "t", "-", "W", "S", "L", "2">>
LinuxRelease == <<"6", ".", "1", "-", "g", "e", "n", "e", "r", "i", "c">>
CR == "\r"

HasSuffix(s, suffix) ==
    Len(s) >= Len(suffix) /\ SubSeq(s, Len(s) - Len(suffix) + 1, Len(s)) = suffix

\* strings.ReplaceAll(s, old, "") for a one-character old.
RECURSIVE RemoveAll(_, _)
RemoveAll(s, old) ==
    IF s = <<>> THEN <<>>
    ELSE (IF Head(s) = old THEN <<>> ELSE <<Head(s)>>) \o RemoveAll(Tail(s), old)

\* Bytes are one-character strings for ASCII and NUL for the zero byte.  A
\* UTF-16LE code unit is two bytes, low byte first; Undecoded is any
\* character outside the ones written here (what a code unit with a non-zero high
\* byte, or a dangling last byte, decodes to).
NUL == "NUL"
Undecoded == "?"

RECURSIVE EncodeUTF16LE(_)
EncodeUTF16LE(s) ==
    IF s = <<>> THEN <<>> ELSE <<Head(s), NUL>> \o EncodeUTF16LE(Tail(s))

RECURSIVE DecodeUTF16LE(_)
DecodeUTF16LE(b) ==
    IF b = <<>> THEN <<>>
    ELSE IF Len(b) = 1 THEN <<Undecoded>>
    ELSE <<IF b[2] = NUL /\ b[1] # NUL THEN b[1] ELSE Undecoded>>
         \o DecodeUTF16LE(SubSeq(b, 3, Len(b)))

\* The machines.  Distros are the subsystem distributions that can be
\* installed; a machine lists up to MaxDistros of them, in some order, and
\* writes the list as UTF-16LE (what wsl.exe does) or as plain bytes.
Distros == {<<"U">>, <<"D">>, <<"A">>}

DistroLists ==
    UNION {{l \in [1..n -> Distros] : \A i, j \in 1..n : l[i] = l[j] => i = j}
           : n \in 0..MaxDistros}

RECURSIVE ListText(_, _)
ListText(names, eol) ==
    IF names = <<>> THEN <<>> ELSE Head(names) \o eol \o ListText(Tail(names), eol)

Range(f) == {f[i] : i \in DOMAIN f}

NoRelease == [stat |-> FALSE, read |-> FALSE, data |-> <<>>]

OsReleases ==
    {NoRelease,
     [stat |-> TRUE, read |-> FALSE, data |-> <<>>],
     [stat |-> TRUE, read |-> TRUE, data |-> WSLRelease],
     [stat |-> TRUE, read |-> TRUE, data |-> LinuxRelease]}

Machine(goos, rel, lp, st, names, utf16, list, live, hasTool) ==
    [goos |-> goos, osrelease |-> rel, lookPath |-> lp, stat |-> st,
     distros |-> names, utf16 |-> utf16, wslList |-> list,
     live |-> live, hasTool |-> hasTool]

NoList == [ok |-> FALSE, out |-> <<>>]

WindowsNative == SUBSET {WinProgramFiles, MultipassExe}

WindowsHosts ==
    {Machine("windows", NoRelease, lp, {}, <<>>, TRUE, NoList, {}, {}) : lp \in WindowsNative}
    \cup {Machine("windows", NoRelease, lp \cup {Wsl}, {}, <<>>, TRUE, NoList, {}, {})
          : lp \in WindowsNative}
    \cup UNION {UNION {
           {Machine("windows", NoRelease, lp \cup {Wsl}, {}, names, utf16,
                    [ok |-> TRUE,
                     out |-> IF utf16 THEN EncodeUTF16LE(ListText(names, eol))
                                      ELSE ListText(names, eol)],
                    live, hasTool)
            : lp \in WindowsNative, utf16 \in BOOLEAN, eol \in {<<NL>>, <<CR, NL>>}}
           : live \in SUBSET Range(names), hasTool \in SUBSET Range(names)}
         : names \in DistroLists}

LinuxHosts ==
    {Machine("linux", rel, lp, st, <<>>, TRUE, NoList, {}, {})
     : rel \in OsReleases, lp \in SUBSET {Multipass},
       st \in SUBSET {MntProgramFiles, MntSystem32}}

Hosts == WindowsHosts \cup LinuxHosts

\* isWSL
isWSL(h) ==
    IF h.goos = "windows" THEN FALSE
    ELSE IF ~h.osrelease.stat THEN FALSE
    ELSE IF ~h.osrelease.read THEN FALSE
    ELSE Contains(h.osrelease.data, WSLMarker)

NoDistro == [distro |-> <<>>, ok |-> FALSE]

\* The loop of checkWSLAvailable over the lines of the list: the first line
\* that is not blank after cleaning and in which `wsl -d <name> true` runs.
RECURSIVE FirstLive(_, _)
FirstLive(h, lines) ==
    IF lines = <<>> THEN NoDistro
    ELSE LET cleanedDistro == TrimSpace(RemoveAll(Head(lines), CR))
         IN  IF cleanedDistro # <<>> /\ cleanedDistro \in h.live
             THEN [distro |-> cleanedDistro, ok |-> TRUE]
             ELSE FirstLive(h, Tail(lines))

checkWSLAvailable(h) ==
    IF Wsl \notin h.lookPath THEN NoDistro
    ELSE IF ~h.wslList.ok THEN NoDistro
    ELSE FirstLive(h, Split(DecodeUTF16LE(h.wslList.out), NL))

Resolved(c, useWSL, distro) ==
    [err |-> FALSE, msg |-> "", cmd |-> c, useWSLMultipass |-> useWSL, wslDistro |-> distro]

Unresolved(msg) ==
    [err |-> TRUE, msg |-> msg, cmd |-> <<>>, useWSLMultipass |-> FALSE, wslDistro |-> <<>>]

getMultipassCmd(h, inWSL, isWindows) ==
    IF isWindows
    THEN IF WinProgramFiles \in h.lookPath THEN Resolved(WinProgramFiles, FALSE, <<>>)
         ELSE IF MultipassExe \in h.lookPath THEN Resolved(MultipassExe, FALSE, <<>>)
         ELSE LET w == checkWSLAvailable(h)
              IN  IF w.ok /\ w.distro \in h.hasTool
                  THEN Resolved(Multipass, TRUE, w.distro)
                  ELSE Unresolved("multipass not found in Windows or WSL")
    ELSE IF inWSL
    THEN IF MntProgramFiles \in h.stat THEN Resolved(MntProgramFiles, FALSE, <<>>)
         ELSE IF MntSystem32 \in h.stat THEN Resolved(MntSystem32, FALSE, <<>>)
         ELSE IF Multipass \in h.lookPath THEN Resolved(Multipass, FALSE, <<>>)
         ELSE Unresolved("multipass not found in WSL or Windows path")
    ELSE IF Multipass \in h.lookPath THEN Resolved(Multipass, FALSE, <<>>)
         ELSE Unresolved("multipass command not found")

NewMultipassEnv(h) ==
    LET RunningOnWindows == h.goos = "windows"
        IsWSL == isWSL(h)
        r == getMultipassCmd(h, IsWSL, RunningOnWindows)
    IN  IF r.err
        THEN [kind |-> "error", msg |-> r.msg]
        ELSE [kind |-> "ok", IsWSL |-> IsWSL, RunningOnWindows |-> RunningOnWindows,
              UseWSLMultipass |-> r.useWSLMultipass, MultipassCmd |-> r.cmd,
              WSLDistro |-> r.wslDistro]

\* A dispatch that would test only the suffix of the executable.
RunMultipassCmdBySuffix(m, a) ==
    IF m.RunningOnWindows /\ m.UseWSLMultipass
    THEN [name |-> Wsl, args |-> <<DashD, m.WSLDistro, ShellType, Login, Multipass>> \o a]
    ELSE IF HasSuffix(m.MultipassCmd, ExeSuffix)
    THEN [name |-> CmdExe, args |-> <<SlashC, m.MultipassCmd>> \o a]
    ELSE [name |-> m.MultipassCmd, args |-> a]

\* RunMultipassCmd, up to the start of the process.
RunMultipassCmd(m, a) ==
    IF m.RunningOnWindows /\ m.UseWSLMultipass
    THEN [name |-> Wsl, args |-> <<DashD, m.WSLDistro, ShellType, Login, Multipass>> \o a]
    ELSE IF m.IsWSL /\ HasSuffix(m.MultipassCmd, ExeSuffix)
    THEN [name |-> CmdExe, args |-> <<SlashC, m.MultipassCmd>> \o a]
    ELSE [name |-> m.MultipassCmd, args |-> a]

\* What callers pass and what the started process answers.
ArgWords == {List, Format}

ArgLists == UNION {[1..n -> ArgWords] : n \in 0..MaxArgs}

Outputs == {<<>>, SomeOutput}

(***************************************************************************)
(* SpecEnv: NewMultipassEnv on one machine, then one RunMultipassCmd.       *)
(***************************************************************************)
InitEnv ==
    /\ pc = "resolve"
    /\ host \in Hosts
    /\ env = [kind |-> "none"]
    /\ args = <<>> /\ cmd = [name |-> <<>>, args |-> <<>>]
    /\ returned = [kind |-> "none"]
    /\ CliIdle /\ ParseIdle /\ MergeIdle

Resolve ==
    /\ pc = "resolve"
    /\ env' = NewMultipassEnv(host)
    /\ pc' = IF env'.kind = "ok" THEN "run" ELSE "done"
    /\ UNCHANGED <<host, args, cmd, returned>>
    /\ UNCHANGED cliVars /\ UNCHANGED parseVars /\ UNCHANGED mergeVars

Run ==
    /\ pc = "run"
    /\ \E a \in ArgLists, out \in Outputs, failed \in BOOLEAN :
          /\ args' = a
          /\ cmd' = [name |-> RunMultipassCmd(env, a).name,
                     args |-> RunMultipassCmd(env, a).args,
                     combined |-> out, failed |-> failed]
          /\ returned' = [kind |-> "returned", output |-> out, err |-> failed]
    /\ pc' = "ran"
    /\ UNCHANGED <<host, env>>
    /\ UNCHANGED cliVars /\ UNCHANGED parseVars /\ UNCHANGED mergeVars

NextEnv == Resolve \/ Run

SpecEnv == InitEnv /\ [][NextEnv]_vars

\* The case of C11: native Windows, no native executable, the bridge command
\* present and its list of distributions obtained (as UTF-16LE).
BridgeCase ==
    /\ pc # "resolve"
    /\ host.goos = "windows"
    /\ host.lookPath = {Wsl}
    /\ host.wslList.ok /\ host.utf16

FirstIndex(I) == CHOOSE i \in I : \A j \in I : i <= j

LiveAt == {i \in 1..Len(host.distros) : host.distros[i] \in host.live}

LiveWithToolAt == {i \in LiveAt : host.distros[i] \in host.hasTool}

BridgeTo(d) ==
    /\ env.kind = "ok" /\ env.RunningOnWindows /\ ~env.IsWSL
    /\ env.UseWSLMultipass /\ env.WSLDistro = d /\ env.MultipassCmd = Multipass

\* C11: on native Windows with no native executable and the bridge command
\* available, the resolver selects the first listed distribution that both
\* answers the liveness probe and has the tool, and succeeds with it (bridge
\* required) even when an earlier live distribution lacks the tool.
C11_FirstLiveDistroWithTool ==
    BridgeCase =>
        IF LiveWithToolAt # {}
        THEN BridgeTo(host.distros[FirstIndex(LiveWithToolAt)])
        ELSE env.kind = "error"

\* What the code does in the case of C11: the resolver selects the first listed
\* distribution that answers the liveness probe, and succeeds with it only
\* if that one has the tool; otherwise resolution fails as not found,
\* whatever the later distributions have.
C11_FirstLiveDistroOnly ==
    BridgeCase =>
        IF LiveAt # {} /\ host.distros[FirstIndex(LiveAt)] \in host.hasTool
        THEN BridgeTo(host.distros[FirstIndex(LiveAt)])
        ELSE env = [kind |-> "error", msg |-> "multipass not found in Windows or WSL"]

\* The first live distribution lacks the tool, a later live one has it, and
\* the resolution has failed.
LaterDistroWithToolPassedOver ==
    /\ BridgeCase
    /\ LiveAt # {} /\ LiveWithToolAt # {}
    /\ FirstIndex(LiveAt) < FirstIndex(LiveWithToolAt)
    /\ env.kind = "error"

\* C13: the process started depends on the stored context alone: the bridge
\* command with -d <distro> --shell-type login <executable> on native
\* Windows with the bridge required; else the Windows command interpreter
\* with /c <executable path> in the Linux subsystem with a .exe path; else
\* the executable itself.  The caller's arguments follow unchanged and in
\* order, and the combined output and the error are returned as they are.
C13_DispatchByContext ==
    pc = "ran" =>
        /\ IF env.RunningOnWindows /\ env.UseWSLMultipass
           THEN /\ cmd.name = Wsl
                /\ cmd.args = <<DashD, env.WSLDistro, ShellType, Login, env.MultipassCmd>> \o args
           ELSE IF env.IsWSL /\ HasSuffix(env.MultipassCmd, ExeSuffix)
           THEN /\ cmd.name = CmdExe
                /\ cmd.args = <<SlashC, env.MultipassCmd>> \o args
           ELSE /\ cmd.name = env.MultipassCmd
                /\ cmd.args = args
        /\ returned.output = cmd.combined
        /\ returned.err = cmd.failed

C13_Witness ==
    /\ pc = "ran"
    /\ env.RunningOnWindows /\ env.UseWSLMultipass
    /\ Len(args) >= 2 /\ args[1] # args[2]
    /\ cmd.failed /\ cmd.combined # <<>>

\* The other two branches of the dispatch, which are reached as well.
DispatchedThroughInterpreter == pc = "ran" /\ cmd.name = CmdExe

DispatchedDirectWithExe ==
    pc = "ran" /\ env.RunningOnWindows /\ cmd.name = MultipassExe

\* The fetches of the merge command, in the order they were issued: the
\* k-th fetch is for the k-th VM of the inventory.
FetchRank(i) == Cardinality({j \in Issued("cat") : j <= i})

FetchesInInventoryOrder ==
    \A i \in Issued("cat") :
        /\ FetchRank(i) <= Len(vms)
        /\ issued[i].vm = vms[FetchRank(i)].Name

\* A failed fetch leaves no document and is followed by the fetch of the next
\* VM, or by the end of the loop.
FailedFetchSkipped ==
    \A i \in Issued("cat") :
        ~issued[i].ok =>
            /\ \A k \in 1..Len(kubeconfigs) : kubeconfigs[k].from # FetchRank(i)
            /\ IF FetchRank(i) < Len(vms)
               THEN pc = "merge_cat" \/ (i < Len(issued) /\ issued[i + 1].sub = "cat")
               ELSE pc \in {"merge_fold", "done"}
            /\ result.cause # i

\* The collected documents are in inventory order, and so is the merge that
\* is made of them: it is never made of an empty sequence, and on success
\* the current context is that of the first VM in the inventory whose
\* document was fetched.
DocumentsInInventoryOrder ==
    /\ \A k \in 1..Len(kubeconfigs) :
          /\ kubeconfigs[k].from \in 1..Len(vms)
          /\ \A j \in 1..(k - 1) : kubeconfigs[j].from < kubeconfigs[k].from
          /\ \E i \in Issued("cat") : issued[i].ok /\ FetchRank(i) = kubeconfigs[k].from
    /\ merged.kind # "none" =>
          /\ kubeconfigs # <<>>
          /\ merged = MergeKubeconfigs(kubeconfigs)
          /\ merged.kind = "ok" =>
                merged.cfg.CurrentContext = vms[kubeconfigs[1].from].Name

MergeErrors ==
    {"no clusters found", "failed to get any kubeconfigs", "failed to merge kubeconfigs"}

\* C14: the merge command fetches the credentials of the managed VMs one at
\* a time in inventory order; a failed fetch is skipped without ending the
\* merge; the fetched documents are merged in inventory order; the merge is
\* never made of an empty sequence; and the command fails only if there are
\* no managed VMs, every fetch failed, or the merge itself fails.
C14_MergeFailsOnlyThreeWays ==
    op = "merge" =>
        /\ FetchesInInventoryOrder
        /\ FailedFetchSkipped
        /\ DocumentsInInventoryOrder
        /\ (pc = "done" /\ issued # <<>> /\ result.kind = "error") =>
               result.msg \in MergeErrors

\* C14 with every way the command ends without success: an error of the
\* environment, of the first listing or of saving the output besides the
\* three above, and the crash of a lookup on a listing the parser cannot
\* read.
C14_MergeInInventoryOrder ==
    op = "merge" =>
        /\ FetchesInInventoryOrder
        /\ FailedFetchSkipped
        /\ DocumentsInInventoryOrder
        /\ (pc = "done" /\ result.kind = "error") =>
               \/ result = EnvError /\ issued = <<>>
               \/ /\ result.msg = "failed to list clusters"
                  /\ Len(issued) = 1 /\ ~issued[1].ok
               \/ result.msg = "no clusters found" /\ vms = <<>> /\ Len(issued) = 1
               \/ /\ result.msg = "failed to get any kubeconfigs"
                  /\ vms # <<>> /\ kubeconfigs = <<>> /\ merged.kind = "none"
               \/ result.msg = "failed to merge kubeconfigs" /\ merged.kind = "error"
               \/ /\ result.msg \in {"failed to create directory", "failed to write kubeconfig"}
                  /\ merged.kind = "ok"
        /\ (pc = "done" /\ result.kind = "panic") =>
               LastIssued.sub = "list" /\ merged.kind = "none"
        /\ (pc = "done" /\ result.kind = "ok") => merged.kind = "ok"

C14_Witness ==
    /\ op = "merge" /\ pc = "done" /\ result.kind = "ok"
    /\ Len(vms) >= 2
    /\ \E i \in Issued("cat") : ~issued[i].ok /\ FetchRank(i) = 1
    /\ Len(kubeconfigs) = 1 /\ kubeconfigs[1].from = 2

\* Two documents fetched and merged, the first VM's context winning.
MergedTwoInOrder ==
    /\ op = "merge" /\ pc = "done" /\ result.kind = "ok"
    /\ Len(kubeconfigs) = 2
    /\ merged.cfg.CurrentContext = vms[1].Name

====
